---------------------------- MODULE Spec2Model ----------------------------
(***************************************************************************)
(* dekrunch: a read-only view of a tree of GNAT-krunched Ada sources.      *)
(*                                                                         *)
(*   adafs.py       EntityResolver (get_ada_entity_name), map_to_virtual,  *)
(*                  build_view (snapshot of symlinks), categorize_directory*)
(*   adafs_fuse.py  AdaFuse (live view: _build, getattr, open, read)       *)
(*                                                                         *)
(* Representation.  A file or directory name is the sequence of its        *)
(* dot-separated parts ("Outer.Inner.ads" is <<"Outer","Inner","ads">>),   *)
(* so that joining with "." is concatenation.  A path is the sequence of   *)
(* its names below the root (the root is <<>>).                            *)
(***************************************************************************)
EXTENDS Integers, Sequences, FiniteSets, TLC

VARIABLES
    src,        \* the source tree: [dirs, files], never written
    umask,      \* the process umask (mode of directories made by makedirs)
    walk,       \* the order in which os.walk listed the source tree
    pc,         \* position of the snapshot command: new, built, categorizing, done, crashed
    view,       \* the snapshot view below mount_root: [dirs, links, files, mode, created, ok]
    stack,      \* call stack of _categorize_dir
    runs,       \* completed runs of categorize_directory
    before,     \* the view as it was when the current/last categorize run began
    fpc,        \* position of the live view: new, mounted, failed
    fuse,       \* AdaFuse: [map, dirs] (_map and _dirs)
    handles,    \* open file descriptors: fd -> [real, pos]
    reqs,       \* read requests in flight
    reply,      \* the reply to the last request
    scan        \* a call of _find_procs_or_funcs_in_string: [lines, pos, ents, nest, result]

viewVars == <<umask, pc, view, stack, runs, before>>
fuseVars == <<fpc, fuse, handles, reqs, reply>>
vars == <<src, umask, walk, pc, view, stack, runs, before,
          fpc, fuse, handles, reqs, reply, scan>>

----------------------------------------------------------------------------
(* Bounds of the model *)

MaxDepth == 3      \* deepest source directory
MaxDirs == 3       \* source directories in a deep tree
MaxFiles == 2      \* files in a flat tree
MaxRuns == 2       \* runs of categorize_directory on one view
MaxHandles == 2    \* descriptors AdaFuse.open hands out
MaxSize == 2       \* largest size of a read request
MaxOffset == 3     \* largest offset of a read request
MaxInFlight == 2   \* read requests in flight at once
MaxLines == 4      \* lines of a source text given to the structural fallback

----------------------------------------------------------------------------
(* Names and paths *)

NoName == <<>>

Front(s) == SubSeq(s, 1, Len(s) - 1)
Last(s) == s[Len(s)]

IsPrefix(p, q) == Len(p) <= Len(q) /\ SubSeq(q, 1, Len(p)) = p

\* str.lower() on one part of a name
Lower(a) ==
    CASE a = "ADS" -> "ads"
      [] a = "ADB" -> "adb"
      [] a = "A" -> "a"
      [] a = "B" -> "b"
      [] a = "P" -> "p"
      [] OTHER -> a

RECURSIVE Perms(_)
Perms(S) ==
    IF S = {} THEN {<<>>}
    ELSE UNION {{<<x>> \o p : p \in Perms(S \ {x})} : x \in S}

----------------------------------------------------------------------------
(* EntityResolver *)

\* A source line, as far as the resolver's regular expressions can tell:
\* kw is the keyword the line begins with, name the identifier after it,
\* is whether the word "is" follows on the same line, cmt whether a comment
\* ("--") begins right after the name, so that what follows is comment.
Line(kw, name, is) == [kw |-> kw, name |-> name, is |-> is, cmt |-> FALSE]
CommentedLine(kw, name, is) == [kw |-> kw, name |-> name, is |-> is, cmt |-> TRUE]

\* line.split('--')[0]
clean_line(l) == [l EXCEPT !.is = l.is /\ ~l.cmt, !.cmt = FALSE]

RECURSIVE _find_package_in_string(_)
_find_package_in_string(lines) ==
    IF lines = <<>> THEN NoName
    ELSE IF Head(lines).kw = "package" THEN Head(lines).name
    ELSE _find_package_in_string(Tail(lines))

decl_re(l) == l.kw \in {"procedure", "function"}
block_start_re(l) ==
    l.kw \in {"package", "procedure", "function", "task", "protected"} /\ l.is
block_end_re(l) == l.kw = "end"

\* ScanLine updating the nesting level before it looks for a declaration
ScanLine_LevelFirst(st, l) ==
    LET line == clean_line(l)
        nest == IF block_start_re(line) THEN st.nest + 1
                ELSE IF block_end_re(line)
                     THEN (IF st.nest > 0 THEN st.nest - 1 ELSE st.nest)
                     ELSE st.nest
        ents == IF decl_re(line) /\ nest = 0 THEN Append(st.ents, line.name)
                ELSE st.ents
    IN [ents |-> ents, nest |-> nest]

\* one iteration of the loop over the lines: st = [ents, nest]
ScanLine(st, l) ==
    LET line == clean_line(l)
        ents == IF decl_re(line) /\ st.nest = 0 THEN Append(st.ents, line.name)
                ELSE st.ents
        nest == IF block_start_re(line) THEN st.nest + 1
                ELSE IF block_end_re(line)
                     THEN (IF st.nest > 0 THEN st.nest - 1 ELSE st.nest)
                     ELSE st.nest
    IN [ents |-> ents, nest |-> nest]

RECURSIVE ScanLines(_, _)
ScanLines(st, lines) ==
    IF lines = <<>> THEN st
    ELSE ScanLines(ScanLine(st, Head(lines)), Tail(lines))

_find_procs_or_funcs_in_string(lines) ==
    LET top_level_entities == ScanLines([ents |-> <<>>, nest |-> 0], lines).ents
    IN IF top_level_entities = <<>> THEN NoName
       ELSE top_level_entities[1]

get_ada_entity_name(f) ==
    IF ~f.readable THEN NoName
    ELSE LET package_name == _find_package_in_string(f.lines)
         IN IF package_name # NoName THEN package_name
            ELSE _find_procs_or_funcs_in_string(f.lines)

----------------------------------------------------------------------------
(* VirtualPathMapper *)

FileName(f) == f.base \o <<f.ext>>
RealPath(f) == f.dir \o <<FileName(f)>>

Recognized(f) == f.ext \in {"ads", "adb"}

Placeholder(base) == [base EXCEPT ![Len(base)] = @ \o "KNUNCHED"]

map_to_virtual(f) ==
    LET resolved == get_ada_entity_name(f)
        package == IF resolved = NoName THEN Placeholder(f.base) ELSE resolved
        file_name == package \o <<Lower(f.ext)>>
    IN f.dir \o <<file_name>>

----------------------------------------------------------------------------
(* The source tree and os.walk *)

File(dir, base, ext, lines, readable, data) ==
    [dir |-> dir, base |-> base, ext |-> ext, lines |-> lines,
     readable |-> readable, data |-> data]

Children(dirs, d) == {p \in dirs : Len(p) = Len(d) + 1 /\ Front(p) = d}
FilesIn(tree, d) == {f \in tree.files : f.dir = d}

\* os.walk(top): top-down; the order of a directory's entries is whatever
\* the file system lists.  A walk is the sequence of (root, dirs, files).
RECURSIVE Walks(_, _), WalkEach(_, _)
Walks(tree, d) ==
    {<<[root |-> d, dirs |-> cs, files |-> fs]>> \o rest :
        <<cs, fs, rest>> \in
            UNION {UNION {{<<c, f, r>> : r \in WalkEach(tree, c)} :
                        f \in Perms(FilesIn(tree, d))} :
                        c \in Perms(Children(tree.dirs, d))}}
WalkEach(tree, cs) ==
    IF cs = <<>> THEN {<<>>}
    ELSE {w1 \o w2 : w1 \in Walks(tree, Head(cs)), w2 \in WalkEach(tree, Tail(cs))}

os_walk(tree) == Walks(tree, <<>>)

----------------------------------------------------------------------------
(* Permission bits *)

RECURSIVE BitAndNot(_, _, _)
BitAndNot(m, u, k) ==
    IF k = 0 THEN 0
    ELSE (IF m % 2 = 1 /\ u % 2 = 0 THEN 1 ELSE 0)
         + 2 * BitAndNot(m \div 2, u \div 2, k - 1)

\* the mode os.makedirs gives a new directory: 0o777 & ~umask
MakedirsMode(u) == BitAndNot(511, u, 9)

OwnerMayWrite(m) == (m \div 128) % 2 = 1
AnyWriteBit(m) ==
    (m \div 128) % 2 = 1 \/ (m \div 16) % 2 = 1 \/ (m \div 2) % 2 = 1

----------------------------------------------------------------------------
(* SnapshotBackend: build_view *)

\* A view:
\*   dirs      its directories (paths below mount_root, <<>> is mount_root)
\*   links     its symlinks: path -> real path of the source file
\*   files     regular files created inside it by somebody else
\*   mode      permission bits of every directory
\*   created   created_dirs
\*   ok        FALSE once a call has raised
EmptyView ==
    [dirs |-> {}, links |-> <<>>, files |-> {}, mode |-> <<>>,
     created |-> {}, ok |-> TRUE]

IsDir(v, p) == p \in v.dirs
IsFile(v, p) == p \in DOMAIN v.links \/ p \in v.files
Exists(v, p) == IsDir(v, p) \/ IsFile(v, p)
Prefixes(p) == {SubSeq(p, 1, k) : k \in 0..Len(p)}

\* os.makedirs(p, exist_ok=True)
makedirs(v, u, p) ==
    IF \E q \in Prefixes(p) : IsFile(v, q)
    THEN [v EXCEPT !.ok = FALSE]
    ELSE LET new == Prefixes(p) \ v.dirs
         IN [v EXCEPT !.dirs = @ \cup new,
                      !.mode = [q \in v.dirs \cup new |->
                                  IF q \in v.dirs THEN v.mode[q]
                                  ELSE MakedirsMode(u)]]

\* PlaceFile leaving out the files without a resolved name
PlaceFile_SkipUnresolved(v, u, f) ==
    IF ~v.ok \/ ~Recognized(f) \/ get_ada_entity_name(f) = NoName THEN v
    ELSE LET dest == map_to_virtual(f)
             dest_dir == Front(dest)
             v1 == IF dest_dir \notin v.created
                   THEN [makedirs(v, u, dest_dir) EXCEPT !.created = @ \cup {dest_dir}]
                   ELSE v
         IN IF ~v1.ok THEN v1
            ELSE IF ~Exists(v1, dest)
                 THEN [v1 EXCEPT !.links =
                          [q \in DOMAIN v1.links \cup {dest} |->
                              IF q = dest THEN RealPath(f) ELSE v1.links[q]]]
                 ELSE v1

\* the body of "for f in files" of build_view, for one file
PlaceFile(v, u, f) ==
    IF ~v.ok \/ ~Recognized(f) THEN v
    ELSE LET dest == map_to_virtual(f)
             dest_dir == Front(dest)
             v1 == IF dest_dir \notin v.created
                   THEN [makedirs(v, u, dest_dir) EXCEPT !.created = @ \cup {dest_dir}]
                   ELSE v
         IN IF ~v1.ok THEN v1
            ELSE IF ~Exists(v1, dest)
                 THEN [v1 EXCEPT !.links =
                          [q \in DOMAIN v1.links \cup {dest} |->
                              IF q = dest THEN RealPath(f) ELSE v1.links[q]]]
                 ELSE v1

RECURSIVE PlaceFiles(_, _, _)
PlaceFiles(v, u, fs) ==
    IF fs = <<>> THEN v
    ELSE PlaceFiles(PlaceFile(v, u, Head(fs)), u, Tail(fs))

\* the body of "for root, _, files in os.walk(src_root)", for one directory
VisitDir(v, u, visit) ==
    IF ~v.ok THEN v
    ELSE LET v1 == makedirs(v, u, visit.root)
         IN IF ~v1.ok THEN v1
            ELSE PlaceFiles([v1 EXCEPT !.created = @ \cup {visit.root}],
                            u, visit.files)

RECURSIVE VisitDirs(_, _, _)
VisitDirs(v, u, visits) ==
    IF visits = <<>> THEN v
    ELSE VisitDirs(VisitDir(v, u, Head(visits)), u, Tail(visits))

\* os.chmod(d, 0o755) on every created directory
DirMode == 493

LockDirs(v) ==
    [v EXCEPT !.mode = [q \in DOMAIN v.mode |->
                           IF q \in v.created THEN DirMode ELSE v.mode[q]]]

build_view(u, visits) ==
    LET v == VisitDirs(EmptyView, u, visits)
    IN IF v.ok THEN LockDirs(v) ELSE v

----------------------------------------------------------------------------
(* Categorizer: categorize_directory, _categorize_dir *)

Basename(p) == Last(p)
Listdirs(v, p) == {Basename(c) : c \in Children(v.dirs, p)}

\* shutil.move(source, dst), source a directory.  A destination that is a
\* directory receives the source inside it; an occupied destination raises
\* (shutil.Error, or OSError from the copy), which _categorize_dir catches.
shutil_move(v, source, dst) ==
    LET real_dst == IF IsDir(v, dst) THEN dst \o <<Basename(source)>> ELSE dst
        Moved(p) == IF IsPrefix(source, p)
                    THEN real_dst \o SubSeq(p, Len(source) + 1, Len(p))
                    ELSE p
    IN IF Exists(v, real_dst) \/ IsPrefix(source, real_dst) THEN v
       ELSE [v EXCEPT
               !.dirs = {Moved(p) : p \in v.dirs},
               !.files = {Moved(p) : p \in v.files},
               !.links = [q \in {Moved(p) : p \in DOMAIN v.links} |->
                            v.links[CHOOSE p \in DOMAIN v.links : Moved(p) = q]],
               !.mode = [q \in {Moved(p) : p \in v.dirs} |->
                            v.mode[CHOOSE p \in v.dirs : Moved(p) = q]]]

\* A call of _categorize_dir(path, pkg_prefix): subdirs is the listing taken
\* on entry, pending the part of it the loop has not reached.  The bottom
\* frame is categorize_directory(root) itself.
Frame(v, path, prefix) ==
    [path |-> path, prefix |-> prefix,
     subdirs |-> Listdirs(v, path), pending |-> Listdirs(v, path)]

\* Relocate with the group directory named by the directory's own name
\* instead of its dotted prefix
Relocate_GroupByBasename(v, u, fr) ==
    LET path == fr.path
        has_spec == IsFile(v, path \o <<Basename(path) \o <<"ads">>>>)
        has_body == IsFile(v, path \o <<Basename(path) \o <<"adb">>>>)
        parent == Front(path)
        group_dir == parent \o <<Basename(path)>>
    IN IF fr.subdirs # {} /\ (has_spec \/ has_body) /\ group_dir # path
       THEN LET v1 == makedirs(v, u, group_dir)
            IN IF v1.ok
               THEN shutil_move(v1, path, group_dir \o <<Basename(path)>>)
               ELSE v1
       ELSE v

\* the part of _categorize_dir after the loop over the subdirectories
Relocate(v, u, fr) ==
    LET path == fr.path
        has_spec == IsFile(v, path \o <<Basename(path) \o <<"ads">>>>)
        has_body == IsFile(v, path \o <<Basename(path) \o <<"adb">>>>)
        parent == Front(path)
        group_dir == parent \o <<fr.prefix>>
    IN IF fr.subdirs # {} /\ (has_spec \/ has_body) /\ group_dir # path
       THEN LET v1 == makedirs(v, u, group_dir)
            IN IF v1.ok
               THEN shutil_move(v1, path, group_dir \o <<Basename(path)>>)
               ELSE v1
       ELSE v

----------------------------------------------------------------------------
(* Source trees of the model *)

\* a directory may carry any name, also one that reads like an extension
DirNames == {<<"A">>, <<"ads">>}
Bases == {<<"x">>, <<"y">>}

PkgSpec(n) == <<Line("package", n, TRUE), Line("end", n, FALSE)>>
ProcBody ==
    <<Line("procedure", <<"P">>, TRUE), Line("other", NoName, FALSE),
      Line("end", <<"P">>, FALSE)>>
NoEntity == <<Line("other", NoName, FALSE)>>

Contents ==
    {[lines |-> PkgSpec(<<"A">>), readable |-> TRUE],
     [lines |-> PkgSpec(<<"A", "B">>), readable |-> TRUE],
     [lines |-> ProcBody, readable |-> TRUE],
     [lines |-> NoEntity, readable |-> TRUE],
     [lines |-> PkgSpec(<<"A">>), readable |-> FALSE]}

\* prefix-closed sets of at most k directories, none deeper than MaxDepth
Grow(S) ==
    {S \cup {p \o <<n>>} : p \in {q \in S \cup {<<>>} : Len(q) < MaxDepth},
                           n \in DirNames}
RECURSIVE Shapes(_)
Shapes(k) ==
    IF k = 0 THEN {{}}
    ELSE LET prev == Shapes(k - 1) IN prev \cup UNION {Grow(S) : S \in prev}

\* sets of at most k files of U, no two at the same real path
RECURSIVE FileSets(_, _)
FileSets(U, k) ==
    IF k = 0 THEN {{}}
    ELSE LET prev == FileSets(U, k - 1)
         IN prev \cup UNION {{F \cup {f} :
                f \in {g \in U : \A h \in F : RealPath(h) # RealPath(g)}} :
                F \in prev}

\* any kind of file, in the root or in a top-level directory
RichFiles(places) ==
    {File(d, b, e, c.lines, c.readable, <<>>) :
        d \in places, b \in Bases, e \in {"ads", "adb"}, c \in Contents}
    \cup {File(d, b, "txt", NoEntity, TRUE, <<>>) : d \in places, b \in Bases}

\* the spec or body of the package a directory is named after
OwnFiles(dirs) ==
    {File(d, <<"x">>, e, PkgSpec(Last(d)), TRUE, <<>>) :
        d \in dirs, e \in {"ads", "adb"}}

FlatShapes == {{}, {<< <<"A">> >>}}
FlatTrees ==
    UNION {{[dirs |-> S, files |-> F] :
              F \in FileSets(RichFiles(S \cup {<<>>}), MaxFiles)} :
              S \in FlatShapes}
DeepTrees ==
    UNION {{[dirs |-> S, files |-> F] :
              F \in FileSets(OwnFiles(S), MaxFiles)} :
              S \in Shapes(MaxDirs)}
SourceTrees == FlatTrees \cup DeepTrees

Umasks == {18, 63}      \* 0o022, 0o077

----------------------------------------------------------------------------
(* The snapshot command: build_view, then categorize_directory *)

NewEntry == <<"NEW", "ads">>

FuseIdle ==
    /\ fpc = "new"
    /\ fuse = [map |-> <<>>, dirs |-> {}]
    /\ handles = <<>>
    /\ reqs = {}
    /\ reply = [op |-> "none"]

\* a call of _find_procs_or_funcs_in_string(source_code) at its entry:
\* pos lines are behind the loop, ents is top_level_entities, nest is
\* nesting_level
ScanCall(lines) ==
    [lines |-> lines, pos |-> 0, ents |-> <<>>, nest |-> 0,
     result |-> NoName, returned |-> FALSE]

ScanIdle == scan = ScanCall(<<>>)

ViewIdle ==
    /\ pc = "new"
    /\ view = EmptyView
    /\ stack = <<>>
    /\ runs = 0
    /\ before = EmptyView

Init ==
    /\ src \in SourceTrees
    /\ umask \in Umasks
    /\ walk = <<>>
    /\ ViewIdle
    /\ FuseIdle
    /\ ScanIdle

\* build_view(src_root, mount_root) on an empty mount point
Build ==
    /\ pc = "new"
    /\ \E w \in os_walk(src) :
          /\ walk' = w
          /\ view' = build_view(umask, w)
          /\ pc' = IF view'.ok THEN "built" ELSE "crashed"
    /\ UNCHANGED <<scan, src, umask, stack, runs, before>>
    /\ UNCHANGED fuseVars

\* categorize_directory(root) is called
CatStart ==
    /\ pc \in {"built", "done"}
    /\ runs < MaxRuns
    /\ stack' = <<Frame(view, <<>>, NoName)>>
    /\ before' = view
    /\ pc' = "categorizing"
    /\ UNCHANGED <<scan, src, umask, view, runs>>
    /\ UNCHANGED <<walk, fuseVars>>

\* the loop reaches a subdirectory d: _categorize_dir(path/d, prefix.d)
CatEnter ==
    /\ pc = "categorizing"
    /\ LET top == stack[Len(stack)]
       IN \E d \in top.pending :
            /\ stack' = Append(
                   [stack EXCEPT ![Len(stack)].pending = @ \ {d}],
                   Frame(view, top.path \o <<d>>,
                         IF Len(stack) = 1 THEN d ELSE top.prefix \o d))
    /\ UNCHANGED <<scan, src, umask, pc, view, runs, before>>
    /\ UNCHANGED <<walk, fuseVars>>

\* a call of _categorize_dir is past its loop: relocate, return
CatLeave ==
    /\ pc = "categorizing"
    /\ Len(stack) > 1
    /\ stack[Len(stack)].pending = {}
    /\ view' = Relocate(view, umask, stack[Len(stack)])
    /\ stack' = IF view'.ok THEN Front(stack) ELSE <<>>
    /\ pc' = IF view'.ok THEN pc ELSE "crashed"
    /\ UNCHANGED <<scan, src, umask, runs, before>>
    /\ UNCHANGED <<walk, fuseVars>>

\* categorize_directory returns
CatReturn ==
    /\ pc = "categorizing"
    /\ Len(stack) = 1
    /\ stack[1].pending = {}
    /\ stack' = <<>>
    /\ runs' = runs + 1
    /\ pc' = "done"
    /\ UNCHANGED <<scan, src, umask, view, before>>
    /\ UNCHANGED <<walk, fuseVars>>

\* the owner of the view tries to create NEW.ads in one of its directories
TryCreate ==
    /\ pc = "done"
    /\ view.files = {}
    /\ \E d \in view.dirs :
          /\ ~Exists(view, d \o <<NewEntry>>)
          /\ view' = IF OwnerMayWrite(view.mode[d])
                     THEN [view EXCEPT !.files = @ \cup {d \o <<NewEntry>>}]
                     ELSE view
    /\ UNCHANGED <<scan, src, umask, pc, stack, runs, before>>
    /\ UNCHANGED <<walk, fuseVars>>

Next ==
    \/ Build
    \/ CatStart
    \/ CatEnter
    \/ CatLeave
    \/ CatReturn
    \/ TryCreate

Spec == Init /\ [][Next]_vars

----------------------------------------------------------------------------
(* LiveBackend: AdaFuse *)

\* str.upper() on one part of a name
Upper(a) ==
    CASE a = "a" -> "A"
      [] a = "b" -> "B"
      [] a = "p" -> "P"
      [] a = "x" -> "X"
      [] a = "y" -> "Y"
      [] a = "ads" -> "ADS"
      [] a = "adb" -> "ADB"
      [] a = "txt" -> "TXT"
      [] a = "xKNUNCHED" -> "XKNUNCHED"
      [] a = "yKNUNCHED" -> "YKNUNCHED"
      [] a = "nope" -> "NOPE"
      [] OTHER -> a
UpperPath(p) == [i \in 1..Len(p) |-> [j \in 1..Len(p[i]) |-> Upper(p[i][j])]]

\* path.lstrip('/').replace(os.sep, '/').upper(): a request path "/A/b.ads" is
\* the sequence of its names, which leaves the upper-casing to do
_lookup(path) == UpperPath(path)

\* called by _add_dir and defined nowhere in adafs_fuse.py: the
\* normalisation that makes a recorded directory the key _lookup computes
_normalize_path(path) == UpperPath(path)

\* records path and every ancestor of it, up to the root ''
_add_dir(dirs, path) == dirs \cup Prefixes(_normalize_path(path))

\* self._map[virt] = real for one recognized file
MapFile(fs, f) ==
    IF ~Recognized(f) THEN fs
    ELSE LET real == RealPath(f)
             virt == UpperPath(map_to_virtual(f))
         IN [map |-> [k \in DOMAIN fs.map \cup {virt} |->
                        IF k = virt THEN real ELSE fs.map[k]],
             dirs |-> _add_dir(fs.dirs, Front(virt))]

RECURSIVE MapFiles(_, _), AddDirs(_, _), BuildVisits(_, _)
MapFiles(fs, files) ==
    IF files = <<>> THEN fs
    ELSE MapFiles(MapFile(fs, Head(files)), Tail(files))
AddDirs(fs, ds) ==
    IF ds = <<>> THEN fs
    ELSE AddDirs([fs EXCEPT !.dirs = _add_dir(@, Head(ds))], Tail(ds))
BuildVisits(fs, visits) ==
    IF visits = <<>> THEN fs
    ELSE BuildVisits(MapFiles(AddDirs(fs, Head(visits).dirs), Head(visits).files),
                     Tail(visits))

_build(visits) == BuildVisits([map |-> <<>>, dirs |-> {<<>>}], visits)

S_IFDIR == 16384
S_IFREG == 32768
DirPerm == 365        \* 0o555
FilePerm == 292       \* 0o444

FileAt(real) == CHOOSE f \in src.files : RealPath(f) = real

Reply(op, path, flags, result) ==
    [op |-> op, path |-> path, flags |-> flags, result |-> result,
     mode |-> 0, nlink |-> 0, size |-> 0, fd |-> 0, offset |-> 0, data |-> <<>>]

\* getattr looking the path up in the Mapping before the DirectorySet
getattr_MapFirst(fs, path) ==
    LET key == _lookup(path)
    IN IF key \in DOMAIN fs.map
       THEN [Reply("getattr", path, {}, "file") EXCEPT
                !.mode = S_IFREG + FilePerm, !.nlink = 1,
                !.size = Len(FileAt(fs.map[key]).data)]
       ELSE IF key = <<>> \/ key \in fs.dirs
            THEN [Reply("getattr", path, {}, "dir") EXCEPT
                     !.mode = S_IFDIR + DirPerm, !.nlink = 2]
            ELSE Reply("getattr", path, {}, "ENOENT")

getattr(fs, path) ==
    LET key == _lookup(path)
    IN IF key = <<>> \/ key \in fs.dirs
       THEN [Reply("getattr", path, {}, "dir") EXCEPT
                !.mode = S_IFDIR + DirPerm, !.nlink = 2]
       ELSE IF key \in DOMAIN fs.map
            THEN [Reply("getattr", path, {}, "file") EXCEPT
                     !.mode = S_IFREG + FilePerm, !.nlink = 1,
                     !.size = Len(FileAt(fs.map[key]).data)]
            ELSE Reply("getattr", path, {}, "ENOENT")

\* open(path, flags): the reply; a successful open returns a new descriptor
open(fs, hs, path, flags) ==
    IF flags \cap {"O_WRONLY", "O_RDWR", "O_APPEND"} # {}
    THEN Reply("open", path, flags, "EROFS")
    ELSE LET key == _lookup(path)
         IN IF key \notin DOMAIN fs.map
            THEN Reply("open", path, flags, "ENOENT")
            ELSE [Reply("open", path, flags, "ok") EXCEPT !.fd = Len(hs) + 1]

\* os.open(real, os.O_RDONLY): a new open file description, cursor at 0
os_open(hs, real) == Append(hs, [real |-> real, pos |-> 0])

\* os.lseek on descriptors that share one cursor per file (open handing out
\* duplicates of one descriptor)
os_lseek_SharedCursor(hs, fh, offset) ==
    [i \in DOMAIN hs |->
        IF hs[i].real = hs[fh].real THEN [hs[i] EXCEPT !.pos = offset] ELSE hs[i]]

\* os.lseek(fh, offset, os.SEEK_SET)
os_lseek(hs, fh, offset) == [hs EXCEPT ![fh].pos = offset]

\* os.read(fh, size): the bytes from the cursor, fewer at end of file
os_read(hs, fh, size) ==
    LET content == FileAt(hs[fh].real).data
        from == hs[fh].pos
        to == IF from + size < Len(content) THEN from + size ELSE Len(content)
    IN SubSeq(content, from + 1, to)

\* create, mkdir, mknod, unlink, rmdir, rename, write, truncate: AdaFuse
\* defines none of them; the requests are refused as on a read-only mount
MutatingOps ==
    {"mkdir", "rmdir", "create", "unlink", "rename", "write"}
mutate_WriteAccepted(op, path) ==
    Reply(op, path, {}, IF op = "write" THEN "ok" ELSE "EROFS")
mutate(op, path) == Reply(op, path, {}, "EROFS")

----------------------------------------------------------------------------
(* The live view: requests against a mounted AdaFuse *)

FuseShapes ==
    {{}, {<< <<"a">> >>}, {<< <<"A", "ads">> >>}, {<< <<"a">> >>, << <<"A">> >>}}
FuseContents == {PkgSpec(<<"A">>), PkgSpec(<<"a">>)}
DataOf(b) == IF b = <<"x">> THEN <<11, 12>> ELSE <<21, 22, 23>>

FuseFiles(places) ==
    {File(d, b, "ads", c, TRUE, DataOf(b)) :
        d \in places, b \in Bases, c \in FuseContents}
FuseTrees ==
    UNION {{[dirs |-> S, files |-> F] :
              F \in FileSets(FuseFiles(S \cup {<<>>}), MaxFiles)} :
              S \in FuseShapes}

\* one or two files in the root, presented at different virtual paths
ReadTrees ==
    {[dirs |-> {}, files |-> F] :
        F \in (SUBSET {File(<<>>, <<"x">>, "ads", PkgSpec(<<"A">>), TRUE, DataOf(<<"x">>)),
                       File(<<>>, <<"y">>, "ads", NoEntity, TRUE, DataOf(<<"y">>))})
              \ {{}}}

ReqPaths ==
    {<<>>, << <<"nope">> >>} \cup src.dirs
    \cup {map_to_virtual(f) : f \in {g \in src.files : Recognized(g)}}
FlagSets ==
    {{}, {"O_WRONLY"}, {"O_RDWR"}, {"O_APPEND"}, {"O_CREAT"},
     {"O_WRONLY", "O_CREAT"}}

InitFuse ==
    /\ src \in FuseTrees
    /\ umask = 18
    /\ walk = <<>>
    /\ ViewIdle
    /\ FuseIdle
    /\ ScanIdle

InitRead ==
    /\ src \in ReadTrees
    /\ umask = 18
    /\ walk = <<>>
    /\ ViewIdle
    /\ FuseIdle
    /\ ScanIdle

\* AdaFuse(src_root): __init__ runs _build
FuseBuild ==
    /\ fpc = "new"
    /\ \E w \in os_walk(src) :
          /\ walk' = w
          /\ fuse' = _build(w)
    /\ fpc' = "mounted"
    /\ UNCHANGED <<scan, src, handles, reqs, reply>>
    /\ UNCHANGED viewVars

Getattr ==
    /\ fpc = "mounted"
    /\ \E path \in ReqPaths : reply' = getattr(fuse, path)
    /\ UNCHANGED <<scan, src, walk, fpc, fuse, handles, reqs>>
    /\ UNCHANGED viewVars

OpenReq(flagsets) ==
    /\ fpc = "mounted"
    /\ Len(handles) < MaxHandles
    /\ \E path \in ReqPaths, flags \in flagsets :
          /\ reply' = open(fuse, handles, path, flags)
          /\ handles' = IF reply'.result = "ok"
                        THEN os_open(handles, fuse.map[_lookup(path)])
                        ELSE handles
    /\ UNCHANGED <<scan, src, walk, fpc, fuse, reqs>>
    /\ UNCHANGED viewVars

Open == OpenReq(FlagSets)
OpenReadOnly == OpenReq({{}})

Mutate ==
    /\ fpc = "mounted"
    /\ \E op \in MutatingOps, path \in ReqPaths : reply' = mutate(op, path)
    /\ UNCHANGED <<scan, src, walk, fpc, fuse, handles, reqs>>
    /\ UNCHANGED viewVars

\* read(path, size, offset, fh), first statement: os.lseek.  Requests on
\* different descriptors run concurrently, one at a time on each.
ReadSeek ==
    /\ fpc = "mounted"
    /\ \E fh \in DOMAIN handles, size \in 1..MaxSize, offset \in 0..MaxOffset :
          /\ \A r \in reqs : r.fd # fh
          /\ handles' = os_lseek(handles, fh, offset)
          /\ reqs' = reqs \cup {[fd |-> fh, size |-> size, offset |-> offset]}
    /\ UNCHANGED <<scan, src, walk, fpc, fuse, reply>>
    /\ UNCHANGED viewVars

\* read, second statement: return os.read(fh, size)
ReadRead ==
    /\ \E r \in reqs :
          LET data == os_read(handles, r.fd, r.size)
          IN /\ reply' = [Reply("read", <<>>, {}, "ok") EXCEPT
                            !.fd = r.fd, !.size = r.size,
                            !.offset = r.offset, !.data = data]
             /\ handles' = [handles EXCEPT ![r.fd].pos = @ + Len(data)]
             /\ reqs' = reqs \ {r}
    /\ UNCHANGED <<scan, src, walk, fpc, fuse>>
    /\ UNCHANGED viewVars

NextFuse ==
    \/ FuseBuild
    \/ Getattr
    \/ Open
    \/ Mutate

SpecFuse == InitFuse /\ [][NextFuse]_vars

NextRead ==
    \/ FuseBuild
    \/ OpenReadOnly
    \/ ReadSeek
    \/ ReadRead

SpecRead == InitRead /\ [][NextRead]_vars

\* read, first statement, under a dispatcher that delivers requests
\* concurrently whatever descriptor they name (FUSE mounted with threads)
ReadSeekShared ==
    /\ fpc = "mounted"
    /\ Cardinality(reqs) < MaxInFlight
    /\ \E fh \in DOMAIN handles, size \in 1..MaxSize, offset \in 0..MaxOffset :
          /\ handles' = os_lseek(handles, fh, offset)
          /\ reqs' = reqs \cup {[fd |-> fh, size |-> size, offset |-> offset]}
    /\ UNCHANGED <<scan, src, walk, fpc, fuse, reply>>
    /\ UNCHANGED viewVars

NextShared ==
    \/ FuseBuild
    \/ OpenReadOnly
    \/ ReadSeekShared
    \/ ReadRead

SpecShared == InitRead /\ [][NextShared]_vars

----------------------------------------------------------------------------
(* The structural fallback, line by line *)

ScanAlphabet ==
    {Line("procedure", <<"P">>, TRUE),
     Line("procedure", <<"Q">>, FALSE),
     Line("function", <<"F">>, TRUE),
     CommentedLine("procedure", <<"R">>, TRUE),
     Line("task", <<"T">>, TRUE),
     Line("end", NoName, FALSE),
     Line("other", NoName, FALSE)}

RECURSIVE Texts(_)
Texts(k) ==
    IF k = 0 THEN {<<>>}
    ELSE LET prev == Texts(k - 1)
         IN prev \cup {Append(t, l) : t \in {u \in prev : Len(u) = k - 1},
                                       l \in ScanAlphabet}

InitScan ==
    /\ src = [dirs |-> {}, files |-> {}]
    /\ umask = 18
    /\ walk = <<>>
    /\ ViewIdle
    /\ FuseIdle
    /\ scan \in {ScanCall(t) : t \in Texts(MaxLines)}

\* one iteration of "for line in source_code.splitlines()"
ScanStep ==
    /\ ~scan.returned
    /\ scan.pos < Len(scan.lines)
    /\ LET st == ScanLine([ents |-> scan.ents, nest |-> scan.nest],
                          scan.lines[scan.pos + 1])
       IN scan' = [scan EXCEPT !.pos = @ + 1, !.ents = st.ents, !.nest = st.nest]
    /\ UNCHANGED <<src, walk, viewVars, fuseVars>>

\* the loop is over: the function returns
ScanReturn ==
    /\ ~scan.returned
    /\ scan.pos = Len(scan.lines)
    /\ scan' = [scan EXCEPT !.returned = TRUE,
                            !.result = _find_procs_or_funcs_in_string(scan.lines)]
    /\ UNCHANGED <<src, walk, viewVars, fuseVars>>

NextScan ==
    \/ ScanStep
    \/ ScanReturn

SpecScan == InitScan /\ [][NextScan]_vars

----------------------------------------------------------------------------
(* Vocabulary of the claims *)

RecognizedFiles == {f \in src.files : Recognized(f)}
UnreadableFiles == {f \in RecognizedFiles : ~f.readable}
ResolvedFiles == {f \in RecognizedFiles : get_ada_entity_name(f) # NoName}

\* the files in the order os.walk listed them
RECURSIVE Discovery(_)
Discovery(visits) ==
    IF visits = <<>> THEN <<>>
    ELSE Head(visits).files \o Discovery(Tail(visits))

Position(f) == CHOOSE i \in 1..Len(Discovery(walk)) : Discovery(walk)[i] = f

\* a directory that owns a spec or body named after itself and has a subdirectory
Hybrid(v, d) ==
    /\ \/ IsFile(v, d \o <<Basename(d) \o <<"ads">>>>)
       \/ IsFile(v, d \o <<Basename(d) \o <<"adb">>>>)
    /\ Children(v.dirs, d) # {}

RECURSIVE DotJoin(_)
DotJoin(names) ==
    IF names = <<>> THEN <<>> ELSE Head(names) \o DotJoin(Tail(names))

IsSourceName(n) == n \in DirNames

\* d sits directly inside the group directory named by the dot-joined
\* source names on its path
InGroupDir(d) ==
    /\ Len(d) >= 2
    /\ d[Len(d) - 1] = DotJoin(SelectSeq(d, IsSourceName))

\* R/S1/.../Sn/Sn.<ext> for a file in R that resolves to S1.S2...Sn
NestedPath(f) ==
    LET n == get_ada_entity_name(f)
    IN f.dir \o [i \in 1..Len(n) |-> <<n[i]>>] \o <<<<n[Len(n)], Lower(f.ext)>>>>

\* the file, of those presented at path p by the mapper m, listed first
FirstAt(m(_), p) ==
    LET at == {f \in RecognizedFiles : m(f) = p}
    IN CHOOSE f \in at : \A g \in at : Position(f) <= Position(g)

FuseKey(f) == UpperPath(map_to_virtual(f))

\* what the DirectorySet is to hold: the root, every real source directory,
\* every ancestor of a virtual path
RecordedDirs ==
    {<<>>} \cup {UpperPath(d) : d \in src.dirs}
    \cup UNION {Prefixes(Front(k)) : k \in DOMAIN fuse.map}

\* the bytes of a file from offset up to min(offset + size, length)
Bytes(real, size, offset) ==
    LET content == FileAt(real).data
    IN SubSeq(content, offset + 1,
              IF offset + size < Len(content) THEN offset + size ELSE Len(content))

----------------------------------------------------------------------------
(* C1 *)

\* C1: in the snapshot and in the live view alike, the entry at a virtual
\* path refers to the file that os.walk listed first among those mapped
\* to that path.
C1_KeepFirst ==
    /\ pc = "built" =>
          \A p \in DOMAIN view.links :
              view.links[p] = RealPath(FirstAt(map_to_virtual, p))
    /\ fpc = "mounted" =>
          \A k \in DOMAIN fuse.map :
              fuse.map[k] = RealPath(FirstAt(FuseKey, k))

----------------------------------------------------------------------------
(* C2 *)

----------------------------------------------------------------------------
(* C3 *)

\* C3: a second run of categorize_directory relocates nothing and leaves
\* the directory tree as the first run left it.
C3_SecondRunIsNoOp ==
    (pc = "done" /\ runs = 2) =>
        (view.dirs = before.dirs /\ view.links = before.links)

----------------------------------------------------------------------------
(* C4 *)

\* C4: a recognized file in R whose entity name resolves to S1.S2...Sn is
\* presented at R/S1/.../Sn/Sn.<ext>.
C4_NestedVirtualPath ==
    pc = "built" =>
        \A f \in ResolvedFiles : IsFile(view, NestedPath(f))

----------------------------------------------------------------------------
(* C7 *)

\* C7: once build_view has returned no view directory has a write bit, and
\* an attempt to create an entry inside a view directory fails.
C7_DirectoriesLocked ==
    /\ pc = "built" => \A d \in view.dirs : ~AnyWriteBit(view.mode[d])
    /\ view.files = {}

----------------------------------------------------------------------------
(* C10 *)

----------------------------------------------------------------------------
(* C5 *)

\* C5: every mutating request is answered Read-Only and changes neither the
\* Mapping, nor the DirectorySet, nor the source tree, nor the descriptors.
C5_MutationsRefused ==
    [][(reply'.op \in MutatingOps /\ reply' # reply) =>
          (reply'.result = "EROFS" /\ UNCHANGED <<src, fuse, handles>>)]_vars

C5_Witness ==
    /\ reply.op = "rename"
    /\ reply.result = "EROFS"
    /\ _lookup(reply.path) \in DOMAIN fuse.map
    /\ Len(handles) > 0

----------------------------------------------------------------------------
(* C6 *)

\* C6: open fails Read-Only when the flags include write, append or create;
\* otherwise fails Not-Found when the path is no Mapping leaf; otherwise
\* returns a descriptor on the mapped real file.
C6_OpenOutcome ==
    reply.op = "open" =>
        IF reply.flags \cap {"O_WRONLY", "O_RDWR", "O_APPEND", "O_CREAT"} # {}
        THEN reply.result = "EROFS"
        ELSE IF _lookup(reply.path) \notin DOMAIN fuse.map
             THEN reply.result = "ENOENT"
             ELSE /\ reply.result = "ok"
                  /\ reply.fd \in DOMAIN handles
                  /\ handles[reply.fd].real = fuse.map[_lookup(reply.path)]

----------------------------------------------------------------------------
(* C8 *)

IsDirReply(r) == r.result = "dir" /\ r.mode = S_IFDIR + DirPerm /\ r.nlink >= 2
IsFileReply(r, real) ==
    r.result = "file" /\ r.mode = S_IFREG + FilePerm
    /\ r.size = Len(FileAt(real).data)

----------------------------------------------------------------------------
(* C9 *)

\* C9: a read on a descriptor returns the bytes of its file from offset up
\* to min(offset + size, length), whatever requests on other descriptors
\* are in flight.
C9_ReadReturnsRequestedBytes ==
    reply.op = "read" =>
        reply.data = Bytes(handles[reply.fd].real, reply.size, reply.offset)

C9_Witness ==
    /\ reply.op = "read"
    /\ reply.data # <<>>
    /\ \E r \in reqs :
          /\ r.fd # reply.fd
          /\ handles[r.fd].real = handles[reply.fd].real
          /\ r.offset # reply.offset

----------------------------------------------------------------------------
(* C11 *)

\* where the claim places a directory of the tree categorize_directory was
\* given: a directory below the top level that owned a spec or body named
\* after itself and had a subdirectory goes to <parent>/<P>/<name>, P the
\* dot-joined names of its original path, its parent being where the claim
\* places it; any other directory stays in its parent
RECURSIVE FinalPath(_)
FinalPath(d) ==
    IF d = <<>> THEN <<>>
    ELSE LET parent == FinalPath(Front(d))
         IN IF Len(d) >= 2 /\ Hybrid(before, d)
            THEN parent \o <<DotJoin(d), Last(d)>>
            ELSE parent \o <<Last(d)>>

\* the first run of categorize_directory on the tree of build_view is over
CategorizeEnded ==
    \/ pc = "done" /\ runs = 1
    \/ pc = "crashed" /\ runs = 0 /\ before.dirs # {}

\* C11: when categorize_directory is over every directory is where the
\* claim places it (relocated below its group directory when it was hybrid
\* and below the top level, unmoved otherwise), with its own files and its
\* children.
C11_PostOrderPlacement ==
    CategorizeEnded =>
        /\ view.dirs = {FinalPath(d) : d \in before.dirs}
                       \cup {Front(FinalPath(d)) : d \in before.dirs \ {<<>>}}
        /\ DOMAIN view.links =
              {FinalPath(Front(p)) \o <<Last(p)>> : p \in DOMAIN before.links}
        /\ \A p \in DOMAIN before.links :
              view.links[FinalPath(Front(p)) \o <<Last(p)>>] = before.links[p]

----------------------------------------------------------------------------
(* C12 *)

\* what a line is once its comment is dropped
DeclaresSubprogram(l) == l.kw \in {"procedure", "function"}
OpensScope(l) ==
    l.kw \in {"package", "procedure", "function", "task", "protected"}
    /\ l.is /\ ~l.cmt
ClosesScope(l) == l.kw = "end"

\* the nesting depth once the first k lines are processed
RECURSIVE Depth(_, _)
Depth(lines, k) ==
    IF k = 0 THEN 0
    ELSE LET d == Depth(lines, k - 1)
         IN IF OpensScope(lines[k]) THEN d + 1
            ELSE IF ClosesScope(lines[k]) /\ d > 0 THEN d - 1
            ELSE d

\* the lines, of the first k, that declare a subprogram at depth zero
Counted(lines, k) ==
    {i \in 1..k : DeclaresSubprogram(lines[i]) /\ Depth(lines, i - 1) = 0}

----------------------------------------------------------------------------
(* C13 *)

\* C13: with requests on one descriptor in flight together, whatever the
\* order of their seek and read steps, a read returns the bytes of the file
\* that start at its own offset: as many as asked for, fewer at the end of
\* the file.
C13_SameHandleReadsIndependent ==
    reply.op = "read" =>
        LET content == FileAt(handles[reply.fd].real).data
            left == IF reply.offset < Len(content)
                    THEN Len(content) - reply.offset ELSE 0
        IN /\ Len(reply.data) = IF reply.size < left THEN reply.size ELSE left
           /\ \A k \in 1..Len(reply.data) :
                 reply.data[k] = content[reply.offset + k]

=============================================================================
